---- MODULE Spec2Model ----
(***************************************************************************)
(* Ghost Job Detector: the storage backends and the aggregation engine.    *)
(*                                                                         *)
(*   relational store  backend/database/manager.py  DatabaseManager        *)
(*                     backend/analysis_service.py  AnalysisService        *)
(*   FlatMap store     backend/vercel_edge_manager.py  VercelEdgeManager   *)
(*   in-memory store   backend/vercel_analysis_service.py  mock_storage    *)
(*                                                                         *)
(* Probabilities are held in hundredths (0.67 is 67); an average is the    *)
(* exact fraction [num, den] so that no rounding hides a drift.            *)
(* schema.sql (the tables, the UNIQUE(url) constraint, the cascading       *)
(* foreign keys and the company triggers) is not among the sources; the    *)
(* definitions that stand for it are marked as such where they appear.     *)
(***************************************************************************)
EXTENDS Integers, Sequences, FiniteSets, TLC

\* ---------------------------------------------------------------- bounds
\* the clock runs over 0..MaxNow (milliseconds since the first request)
MaxNow == 2
\* number of storage operations in one run
MaxOps == 3
\* number of calls in one run that meet a failing request to the remote store
MaxFaults == 1

\* ---------------------------------------------------------- input spaces
\* the analyses submitted: url, company and ghost_probability in hundredths
\* (0.90 is a ghost post, 0.50 and 0.20 are not).  One company is seen on
\* two platforms, one url comes with two companies, and one url is analysed
\* again with another score.
AnalysisInputs ==
    {[url |-> "u1", company |-> "A", prob |-> 90],
     [url |-> "u1", company |-> "A", prob |-> 20],
     [url |-> "u2", company |-> "A", prob |-> 50],
     [url |-> "u2", company |-> "B", prob |-> 90]}
\* what comes with an analysis: no key factor and no parsing metadata, or
\* two key factors and the parsing metadata
ChildInputs == {[nf |-> 0, meta |-> FALSE], [nf |-> 2, meta |-> TRUE]}
\* what VercelAnalysisService passes to the FlatMap store: the factors of
\* _generate_analysis_factors (never empty) and the parsing metadata of
\* extract_job_data
EdgeChildInputs == {[nf |-> 2, meta |-> TRUE]}

\* ------------------------------------------------------ program constants
\* ghost_probability >= 0.67 counts as a ghost post / high risk
HIGH_RISK == 67
\* avg_ghost_probability >= 0.34 is medium risk
MEDIUM_RISK == 34

\* results of a call that are not an id: None, and an exception reaching
\* the caller (ids start at 1)
None == 0
Raised == -1

\* the request handlers that can be inside a storage call at the same time
Workers == {1, 2}

VARIABLES
    db,            \* the SQLite database: tables and the rowid sequence
    edge,          \* the remote Edge Config document: section -> content
    mock_storage,  \* VercelAnalysisService.mock_storage['mock_analyses']
    now,           \* the clock, in milliseconds
    ops,           \* storage calls started so far
    faults,        \* reads and writes so far that met a failing request
    pc,            \* per handler: "idle", or "save_all_data" inside a FlatMap write
    call,          \* per handler: the FlatMap call in flight (its all_data)
    ret            \* per handler: the last completed call and what it returned

vars == <<db, edge, mock_storage, now, ops, faults, pc, call, ret>>

\* the record of a completed call; written: the sections of the remote
\* document the call replaced; stale: another handler wrote the document
\* between this call's read and its write
Returned(op, arg, result, written, stale) ==
    [op |-> op, arg |-> arg, result |-> result, written |-> written, stale |-> stale]

\* ------------------------------------------------------------- helpers
Max(a, b) == IF a >= b THEN a ELSE b
Min(a, b) == IF a <= b THEN a ELSE b

RECURSIVE SumOver(_, _)
\* sum of f[k] over the keys in S
SumOver(f, S) ==
    IF S = {} THEN 0
    ELSE LET k == CHOOSE x \in S : TRUE IN f[k] + SumOver(f, S \ {k})

\* detect_platform, as far as the input spaces go: the hostname decides
detect_platform(url) == IF url = "u1" THEN "linkedin" ELSE "indeed"

\* the thresholds taken as strict: an average of exactly 0.67 is medium
RiskOfAbove(avg) ==
    IF avg.num * 100 > HIGH_RISK * 100 * avg.den THEN "high"
    ELSE IF avg.num * 100 > MEDIUM_RISK * 100 * avg.den THEN "medium"
    ELSE "low"

\* RiskLevel of an average num/den (thresholds 0.67 and 0.34)
RiskOf(avg) ==
    IF avg.num * 100 >= HIGH_RISK * 100 * avg.den THEN "high"
    ELSE IF avg.num * 100 >= MEDIUM_RISK * 100 * avg.den THEN "medium"
    ELSE "low"

\* =====================================================================
\* Relational store
\* =====================================================================

\* ids of the job_searches rows whose company is c
RowsOfCompany(rows, c) == {i \in DOMAIN rows : rows[i].company = c}

\* The companies row the schema's triggers maintain for company c: a full
\* recomputation over the job_searches rows of c.
CompanyAggregate(rows, c) ==
    LET ids == RowsOfCompany(rows, c)
        p == [i \in ids |-> rows[i].ghost_probability]
        n == Cardinality(ids)
        avg == IF n = 0 THEN [num |-> 0, den |-> 1]
               ELSE [num |-> SumOver(p, ids), den |-> n]
    IN [company_name |-> c,
        total_posts |-> n,
        ghost_posts |-> Cardinality({i \in ids : p[i] >= HIGH_RISK}),
        avg_ghost_probability |-> avg,
        platforms_seen |-> {rows[i].platform : i \in ids},
        risk_level |-> IF n = 0 THEN "unknown" ELSE RiskOf(avg)]

\* a trigger that only counts inserts: total_posts is bumped, never recomputed
CompanyTriggerCountingInserts(companies, rows, c) ==
    [k \in DOMAIN companies \cup {c} |->
        IF k # c THEN companies[k]
        ELSE [CompanyAggregate(rows, c) EXCEPT !.total_posts =
                 IF c \in DOMAIN companies THEN companies[c].total_posts + 1 ELSE 1]]

\* AFTER INSERT / AFTER DELETE ON job_searches: the company of the row that
\* changed is recomputed; a company keeps its row once it has one.
CompanyTrigger(companies, rows, c) ==
    [k \in DOMAIN companies \cup {c} |->
        IF k = c THEN CompanyAggregate(rows, c) ELSE companies[k]]

\* UNIQUE(url) on job_searches: the INSERT raises IntegrityError
UniqueConstraintFailed(rows, url) == \E i \in DOMAIN rows : rows[i].url = url

\* the lookup without its WHERE clause: fetchone() gives the oldest row
SelectIdOfFirstRow(rows, url) ==
    IF DOMAIN rows # {}
    THEN CHOOSE i \in DOMAIN rows : \A j \in DOMAIN rows : i <= j
    ELSE None

\* SELECT id FROM job_searches WHERE url = ?  (fetchone; None when no row)
SelectIdByUrl(rows, url) ==
    IF \E i \in DOMAIN rows : rows[i].url = url
    THEN CHOOSE i \in DOMAIN rows : rows[i].url = url
    ELSE None

\* the database after INSERT INTO job_searches ... (cursor.lastrowid is seq+1)
InsertJobSearch(d, url, company, prob, t) ==
    LET id == d.seq + 1
        rows == [i \in DOMAIN d.job_searches \cup {id} |->
                    IF i = id
                    THEN [url |-> url, platform |-> detect_platform(url),
                          company |-> company, ghost_probability |-> prob,
                          analysis_date |-> t]
                    ELSE d.job_searches[i]]
    IN [d EXCEPT !.job_searches = rows,
                 !.seq = id,
                 !.companies = CompanyTrigger(d.companies, rows, company)]

\* the transaction of create_job_search up to conn.commit(): the job row,
\* its key factors, its parsing metadata
InsertAnalysis(d, url, company, prob, nf, meta, t) ==
    LET d1 == InsertJobSearch(d, url, company, prob, t)
        id == d1.seq
    IN [d1 EXCEPT !.key_factors = @ \cup {<<id, k>> : k \in 1..nf},
                  !.parsing_metadata = IF meta THEN @ \cup {id} ELSE @]

\* a create that ignores the duplicate job row and goes on to insert the
\* children it was given under the existing id
CreateOutcomeAddingChildren(d, url, company, prob, nf, meta, t, fault) ==
    IF \E i \in DOMAIN d.job_searches : d.job_searches[i].url = url
    THEN LET id == CHOOSE i \in DOMAIN d.job_searches : d.job_searches[i].url = url
         IN <<[d EXCEPT !.key_factors = @ \cup {<<id, k>> : k \in 1..nf},
                        !.parsing_metadata = IF meta THEN @ \cup {id} ELSE @], id>>
    ELSE IF fault
    THEN <<d, Raised>>
    ELSE LET d1 == InsertAnalysis(d, url, company, prob, nf, meta, t)
         IN <<d1, d1.seq>>

\* what a call leaves in the database and returns: <<database, result>>.
\* fault: an exception other than the uniqueness violation raised inside
\* the transaction (the except branches roll back and re-raise).
CreateOutcome(d, url, company, prob, nf, meta, t, fault) ==
    IF UniqueConstraintFailed(d.job_searches, url)
    THEN <<d, SelectIdByUrl(d.job_searches, url)>>
    ELSE IF fault
    THEN <<d, Raised>>
    ELSE LET d1 == InsertAnalysis(d, url, company, prob, nf, meta, t)
         IN <<d1, d1.seq>>

\* DatabaseManager.create_job_search(job_data, factors, parsing_metadata)
create_job_search(url, company, prob, nf, meta, t, fault) ==
    /\ pc[1] = "idle"
    /\ ops < MaxOps
    /\ LET out == CreateOutcome(db, url, company, prob, nf, meta, t, fault)
       IN /\ db' = out[1]
          /\ ret' = [ret EXCEPT ![1] =
                        Returned("create_job_search", url, out[2], {}, FALSE)]
    /\ now' = t
    /\ ops' = ops + 1
    /\ UNCHANGED <<edge, mock_storage, faults, pc, call>>

\* AnalysisService.save_analysis_to_database(job_url, job_data, analysis):
\* the same transaction; the parsing metadata row is always inserted, and
\* an uncommitted transaction is dropped by conn.close()
save_analysis_to_database(url, company, prob, nf, t, fault) ==
    /\ pc[1] = "idle"
    /\ ops < MaxOps
    /\ LET out == CreateOutcome(db, url, company, prob, nf, TRUE, t, fault)
       IN /\ db' = out[1]
          /\ ret' = [ret EXCEPT ![1] =
                        Returned("save_analysis_to_database", url, out[2], {}, FALSE)]
    /\ now' = t
    /\ ops' = ops + 1
    /\ UNCHANGED <<edge, mock_storage, faults, pc, call>>

\* DELETE FROM job_searches WHERE id = ? with PRAGMA foreign_keys = ON: the
\* key_factors and parsing_metadata rows of the job go with it (ON DELETE
\* CASCADE) and the company is recomputed
DeleteCascade(d, id) ==
    LET rows == [i \in DOMAIN d.job_searches \ {id} |-> d.job_searches[i]]
    IN [d EXCEPT !.job_searches = rows,
                 !.key_factors = {f \in @ : f[1] # id},
                 !.parsing_metadata = @ \ {id},
                 !.companies = CompanyTrigger(@, rows, d.job_searches[id].company)]

\* DatabaseManager.delete_job_search(search_id)
delete_job_search(id) ==
    /\ pc[1] = "idle"
    /\ ops < MaxOps
    /\ LET deleted == id \in DOMAIN db.job_searches
       IN /\ db' = IF deleted THEN DeleteCascade(db, id) ELSE db
          /\ ret' = [ret EXCEPT ![1] =
                        Returned("delete_job_search", id, deleted, {}, FALSE)]
    /\ ops' = ops + 1
    /\ UNCHANGED <<edge, mock_storage, now, faults, pc, call>>

\* DatabaseManager.get_job_search(search_id): None when there is no row
get_job_search(d, id) ==
    IF id \in DOMAIN d.job_searches
    THEN [job_search |-> d.job_searches[id],
          key_factors |-> {f \in d.key_factors : f[1] = id},
          parsing_metadata |-> id \in d.parsing_metadata]
    ELSE None

\* =====================================================================
\* FlatMap store (Vercel Edge Config)
\* =====================================================================

\* _save_all_data keeps the most recent job searches only; the source
\* keeps 100, scaled down here so that a run reaches the limit
RECENT_LIMIT == 2

\* the sections of the document, in the order _save_all_data fills `updates`
SectionOrder ==
    <<"job_searches", "companies", "key_factors", "parsing_metadata", "stats">>
Sections == {SectionOrder[k] : k \in 1..Len(SectionOrder)}

\* a store that holds no item yet
NoDocument == [k \in {} |-> {}]

\* the structure get_all_data returns when its GET fails
EmptyStructure ==
    [k \in Sections |->
        IF k = "stats" THEN [total_analyses |-> 0] ELSE NoDocument]

\* get_all_data(): the document as the store returns it, or the empty
\* structure when the request fails
get_all_data(doc, ok) == IF ok THEN doc ELSE EmptyStructure

MinOf(S) == CHOOSE x \in S : \A y \in S : x <= y
MaxOf(S) == CHOOSE x \in S : \A y \in S : x >= y

\* f with key k set to v (a dict assignment)
Put(f, k, v) == [x \in DOMAIN f \cup {k} |-> IF x = k THEN v ELSE f[x]]
\* f without key k (del)
Del(f, k) == [x \in DOMAIN f \ {k} |-> f[x]]

\* the companies entry created for a company seen for the first time
NewCompany(c) ==
    [company_name |-> c, total_posts |-> 0, ghost_posts |-> 0,
     avg_ghost_probability |-> [num |-> 0, den |-> 1],
     min_ghost_probability |-> 100, max_ghost_probability |-> 0,
     platforms_seen |-> {}, risk_level |-> "unknown"]

\* "Update company statistics": the counters are bumped, avg/min/max and the
\* risk level are recalculated over the job searches of the snapshot
UpdateCompany(companies, js, c, platform, prob) ==
    LET old == IF c \in DOMAIN companies THEN companies[c] ELSE NewCompany(c)
        ids == {i \in DOMAIN js : js[i].company = c}
        p == [i \in ids |-> js[i].ghost_probability]
        avg == [num |-> SumOver(p, ids), den |-> Cardinality(ids)]
        counted == [old EXCEPT !.total_posts = @ + 1,
                               !.platforms_seen = @ \cup {platform},
                               !.ghost_posts = IF prob >= HIGH_RISK THEN @ + 1 ELSE @]
    IN Put(companies, c,
           IF ids = {} THEN counted
           ELSE [counted EXCEPT !.avg_ghost_probability = avg,
                                !.min_ghost_probability = MinOf({p[i] : i \in ids}),
                                !.max_ghost_probability = MaxOf({p[i] : i \in ids}),
                                !.risk_level = RiskOf(avg)])

\* the sections save_job_analysis indexes with all_data[...]: a snapshot
\* without one of them raises KeyError before anything is written
SaveNeeds(meta) ==
    {"job_searches", "key_factors", "companies", "stats"}
        \cup (IF meta THEN {"parsing_metadata"} ELSE {})

\* save_job_analysis up to its call of _save_all_data: all_data with the new
\* record (id: the clock in ms), its factors, its metadata, the company
\* statistics and the global stats
SaveModify(all_data, url, company, prob, nf, meta, t) ==
    LET id == t
        platform == detect_platform(url)
        js == Put(all_data["job_searches"], id,
                  [id |-> id, url |-> url, platform |-> platform,
                   company |-> company, ghost_probability |-> prob,
                   analysis_date |-> t])
        kf == [f \in DOMAIN all_data["key_factors"] \cup {<<id, i>> : i \in 0..(nf - 1)} |->
                  IF f[1] = id /\ f[2] < nf THEN [search_id |-> id]
                  ELSE all_data["key_factors"][f]]
    IN [k \in DOMAIN all_data |->
          CASE k = "job_searches" -> js
            [] k = "key_factors" -> kf
            [] k = "parsing_metadata" ->
                  IF meta THEN Put(all_data[k], id, [search_id |-> id]) ELSE all_data[k]
            [] k = "companies" -> UpdateCompany(all_data[k], js, company, platform, prob)
            [] k = "stats" -> [total_analyses |-> Cardinality(DOMAIN js)]
            [] OTHER -> all_data[k]]

\* the sections delete_analysis and its _save_all_data index with [...]
DeleteNeeds == {"job_searches", "stats", "companies", "parsing_metadata"}

\* delete_analysis up to its call of _save_all_data
DeleteModify(all_data, id) ==
    LET js == Del(all_data["job_searches"], id)
        old_kf == IF "key_factors" \in DOMAIN all_data
                  THEN all_data["key_factors"] ELSE NoDocument
    IN [k \in DOMAIN all_data \cup {"key_factors"} |->
          CASE k = "job_searches" -> js
            [] k = "key_factors" ->
                  [f \in {g \in DOMAIN old_kf : old_kf[g].search_id # id} |-> old_kf[f]]
            [] k = "parsing_metadata" -> Del(all_data[k], id)
            [] k = "stats" -> [total_analyses |-> Cardinality(DOMAIN js)]
            [] OTHER -> all_data[k]]

\* sorted(..., key=analysis_date, reverse=True)[:100]: the ids of the
\* RECENT_LIMIT job searches with the greatest analysis_date (two stored
\* records never share a date: the id is the same clock reading)
RecentIds(js) ==
    {i \in DOMAIN js :
        Cardinality({j \in DOMAIN js : js[j].analysis_date > js[i].analysis_date})
            < RECENT_LIMIT}

\* the `updates` _save_all_data builds from data
Updates(data) ==
    LET recent == RecentIds(data["job_searches"])
    IN [k \in Sections |->
          CASE k = "job_searches" -> [i \in recent |-> data[k][i]]
            [] k = "companies" -> data[k]
            [] k = "key_factors" ->
                  [f \in {g \in DOMAIN data[k] : data[k][g].search_id \in recent} |-> data[k][f]]
            [] k = "parsing_metadata" ->
                  [i \in DOMAIN data[k] \cap recent |-> data[k][i]]
            [] OTHER -> data[k]]

\* the document after the requests of S (a set of sections) went through
PutSections(doc, updates, S) ==
    [k \in DOMAIN doc \cup S |-> IF k \in S THEN updates[k] ELSE doc[k]]

\* How the requests of one _save_all_data can end: the batch PATCH goes
\* through, or it fails and the PUTs of the fallback loop go through for
\* the first n sections (the store stops answering during the call).
WriteOutcomes == {"patch"} \cup {"put"} \X (0..Len(SectionOrder))

\* the sections an outcome writes
WrittenBy(outcome) ==
    IF outcome = "patch" THEN Sections
    ELSE {SectionOrder[k] : k \in 1..outcome[2]}

\* a write that merges: the entries of a section that the updates do not
\* name are kept (what a per-item upsert or a compare-and-merge would do)
StoredDocumentMerged(doc, data, outcome) ==
    LET up == Updates(data)
        S == WrittenBy(outcome)
    IN [k \in DOMAIN doc \cup S |->
          IF k \notin S THEN doc[k]
          ELSE IF k = "stats" \/ k \notin DOMAIN doc THEN up[k]
          ELSE [x \in DOMAIN doc[k] \cup DOMAIN up[k] |->
                   IF x \in DOMAIN up[k] THEN up[k][x] ELSE doc[k][x]]]

\* _save_all_data(data): no exception leaves it
StoredDocument(doc, data, outcome) ==
    PutSections(doc, Updates(data), WrittenBy(outcome))

NoCallInFlight == [op |-> "none", arg |-> None, data |-> NoDocument, stale |-> FALSE]

\* a write by handler w makes the snapshot of every other call in flight stale
Overtaken(w) ==
    [v \in Workers |->
        IF v # w /\ pc[v] = "save_all_data" THEN [call[v] EXCEPT !.stale = TRUE]
        ELSE IF v = w THEN NoCallInFlight ELSE call[v]]

\* a request of the call fails (RequestException): counted against MaxFaults
Failing(failed) ==
    IF failed THEN faults < MaxFaults /\ faults' = faults + 1
    ELSE faults' = faults

\* VercelEdgeManager.save_job_analysis, first part: get_all_data and the
\* changes to the snapshot
save_job_analysis(w, url, company, prob, nf, meta, t, readok) ==
    /\ pc[w] = "idle"
    /\ ops < MaxOps
    /\ Failing(~readok)
    /\ LET all_data == get_all_data(edge, readok)
       IN IF SaveNeeds(meta) \subseteq DOMAIN all_data
          THEN /\ call' = [call EXCEPT ![w] =
                     [op |-> "save_job_analysis", arg |-> url,
                      data |-> SaveModify(all_data, url, company, prob, nf, meta, t),
                      stale |-> FALSE]]
               /\ pc' = [pc EXCEPT ![w] = "save_all_data"]
               /\ ret' = [ret EXCEPT ![w] = Returned("save_job_analysis", url, t, {}, FALSE)]
          ELSE /\ ret' = [ret EXCEPT ![w] =
                     Returned("save_job_analysis", url, Raised, {}, FALSE)]
               /\ UNCHANGED <<pc, call>>
    /\ now' = t
    /\ ops' = ops + 1
    /\ UNCHANGED <<db, edge, mock_storage>>

\* VercelEdgeManager.delete_analysis, first part
delete_analysis(w, id, readok) ==
    /\ pc[w] = "idle"
    /\ ops < MaxOps
    /\ Failing(~readok)
    /\ LET all_data == get_all_data(edge, readok)
           found == /\ "job_searches" \in DOMAIN all_data
                    /\ id \in DOMAIN all_data["job_searches"]
       IN IF ~found
          THEN /\ ret' = [ret EXCEPT ![w] =
                     Returned("delete_analysis", id, FALSE, {}, FALSE)]
               /\ UNCHANGED <<pc, call>>
          ELSE IF DeleteNeeds \subseteq DOMAIN all_data
          THEN /\ call' = [call EXCEPT ![w] =
                     [op |-> "delete_analysis", arg |-> id,
                      data |-> DeleteModify(all_data, id), stale |-> FALSE]]
               /\ pc' = [pc EXCEPT ![w] = "save_all_data"]
               /\ ret' = [ret EXCEPT ![w] = Returned("delete_analysis", id, TRUE, {}, FALSE)]
          ELSE /\ ret' = [ret EXCEPT ![w] =
                     Returned("delete_analysis", id, Raised, {}, FALSE)]
               /\ UNCHANGED <<pc, call>>
    /\ ops' = ops + 1
    /\ UNCHANGED <<db, edge, mock_storage, now>>

\* the _save_all_data that ends save_job_analysis and delete_analysis, and
\* the return of the call
save_all_data(w, outcome) ==
    /\ pc[w] = "save_all_data"
    /\ Failing(outcome # "patch")
    /\ edge' = StoredDocument(edge, call[w].data, outcome)
    /\ ret' = [ret EXCEPT ![w] =
                  Returned(call[w].op, call[w].arg, @.result,
                           WrittenBy(outcome), call[w].stale)]
    /\ pc' = [pc EXCEPT ![w] = "idle"]
    /\ call' = Overtaken(w)
    /\ UNCHANGED <<db, mock_storage, now, ops>>

\* ---------------------------------------------------------------- Init
EmptyDb ==
    [job_searches |-> <<>>, key_factors |-> {}, parsing_metadata |-> {},
     companies |-> <<>>, seq |-> 0]

NoCall == Returned("init", None, None, {}, FALSE)

InitLocal ==
    /\ db = EmptyDb
    /\ mock_storage = <<>>
    /\ now = 0
    /\ ops = 0
    /\ faults = 0
    /\ pc = [w \in Workers |-> "idle"]
    /\ call = [w \in Workers |-> NoCallInFlight]
    /\ ret = [w \in Workers |-> NoCall]

Init ==
    /\ InitLocal
    /\ edge = NoDocument

\* the times an operation that starts now can read from the clock
Times == {t \in now..(now + 1) : t <= MaxNow}

RelCreate ==
    \E job \in AnalysisInputs, kids \in ChildInputs, t \in Times,
       fault \in BOOLEAN :
        create_job_search(job.url, job.company, job.prob, kids.nf, kids.meta, t, fault)

RelSave ==
    \E job \in AnalysisInputs, kids \in ChildInputs, t \in Times,
       fault \in BOOLEAN :
        save_analysis_to_database(job.url, job.company, job.prob, kids.nf, t, fault)

RelDelete == \E id \in 1..MaxOps : delete_job_search(id)

RelNext == RelCreate \/ RelSave \/ RelDelete

SpecRel == Init /\ [][RelNext]_vars

\* the FlatMap store with one request handler: a call ends before the next
\* one starts
InitEdge ==
    /\ InitLocal
    /\ edge \in {NoDocument, EmptyStructure}

EdgeSave ==
    \E job \in AnalysisInputs, kids \in EdgeChildInputs, t \in Times,
       readok \in BOOLEAN :
        save_job_analysis(1, job.url, job.company, job.prob, kids.nf, kids.meta, t, readok)

EdgeDelete == \E id \in 0..MaxNow, readok \in BOOLEAN : delete_analysis(1, id, readok)

EdgeWrite == \E outcome \in WriteOutcomes : save_all_data(1, outcome)

EdgeNext == EdgeSave \/ EdgeDelete \/ EdgeWrite

SpecEdge == InitEdge /\ [][EdgeNext]_vars

\* the FlatMap store when every request to it succeeds
ReliableSave ==
    \E job \in AnalysisInputs, kids \in EdgeChildInputs, t \in Times :
        save_job_analysis(1, job.url, job.company, job.prob, kids.nf, kids.meta, t, TRUE)

ReliableDelete == \E id \in 0..MaxNow : delete_analysis(1, id, TRUE)

ReliableWrite == save_all_data(1, "patch")

ReliableNext == ReliableSave \/ ReliableDelete \/ ReliableWrite

SpecEdgeReliable == InitEdge /\ [][ReliableNext]_vars

\* the FlatMap store with two request handlers, each serving one analyze
\* request: their reads and writes of the document interleave
ConcSave ==
    \E w \in Workers, job \in AnalysisInputs, kids \in EdgeChildInputs, t \in Times,
       readok \in BOOLEAN :
        /\ ret[w].op = "init"
        /\ save_job_analysis(w, job.url, job.company, job.prob, kids.nf, kids.meta,
                             t, readok)

ConcWrite == \E w \in Workers, outcome \in WriteOutcomes : save_all_data(w, outcome)

ConcNext == ConcSave \/ ConcWrite

SpecConc == InitEdge /\ [][ConcNext]_vars

\* VercelAnalysisService.save_analysis_to_storage without Edge Config: the
\* analysis goes to mock_storage['mock_analyses'] under the clock's id
save_analysis_to_storage_mock(url, company, prob, t) ==
    /\ pc[1] = "idle"
    /\ ops < MaxOps
    /\ mock_storage' = Put(mock_storage, t,
                           [id |-> t, url |-> url, company |-> company,
                            ghost_probability |-> prob, timestamp |-> t])
    /\ ret' = [ret EXCEPT ![1] = Returned("save_analysis_to_storage", url, t, {}, FALSE)]
    /\ now' = t
    /\ ops' = ops + 1
    /\ UNCHANGED <<db, edge, faults, pc, call>>

MockSave ==
    \E job \in AnalysisInputs, t \in Times :
        save_analysis_to_storage_mock(job.url, job.company, job.prob, t)

MockNext == MockSave

SpecMock == Init /\ [][MockNext]_vars

Next == RelNext \/ EdgeNext \/ MockNext

Spec == Init /\ [][Next]_vars

\* =====================================================================
\* Claims
\* =====================================================================

IsCreate(r) == r.op \in {"create_job_search", "save_analysis_to_database"}

\* C1: a create_job_search / save_analysis_to_database call whose url is
\* already in job_searches returns the id of that row and leaves the set of
\* job_searches rows as it was; no call adds more than one row.
C1_DuplicateUrlReturnsExistingId ==
    [][(IsCreate(ret'[1]) /\ ops' = ops + 1) =>
        /\ Cardinality(DOMAIN db'.job_searches)
              <= Cardinality(DOMAIN db.job_searches) + 1
        /\ (\E i \in DOMAIN db.job_searches : db.job_searches[i].url = ret'[1].arg) =>
              /\ ret'[1].result \in DOMAIN db.job_searches
              /\ db.job_searches[ret'[1].result].url = ret'[1].arg
              /\ db'.job_searches = db.job_searches]_vars

\* a duplicate submission has returned the id of a row that is not the last
\* one inserted
C1_Witness ==
    /\ IsCreate(ret[1])
    /\ ret[1].result \in DOMAIN db.job_searches
    /\ db.job_searches[ret[1].result].url = ret[1].arg
    /\ ret[1].result < db.seq

\* C3: every companies row has total_posts equal to the number of
\* job_searches rows of that company, after any creates and deletes.
C3_TotalPostsMatchesRows ==
    \A c \in DOMAIN db.companies :
        db.companies[c].total_posts
            = Cardinality({i \in DOMAIN db.job_searches : db.job_searches[i].company = c})

\* a delete went through and the company it hit still has a post
C3_Witness ==
    /\ ret[1].op = "delete_job_search"
    /\ ret[1].result = TRUE
    /\ \E c \in DOMAIN db.companies :
          /\ db.companies[c].total_posts = 1
          /\ db.companies[c].ghost_posts = 1
    /\ \E c \in DOMAIN db.companies : db.companies[c].total_posts = 0

\* ---------------------------------------------------------------------
\* FlatMap store

\* the handler is between calls and the document has its five sections
Settled == pc[1] = "idle" /\ Sections \subseteq DOMAIN edge

JobSearches == edge["job_searches"]

\* the persisted job searches of company c
PersistedOf(c) == {i \in DOMAIN JobSearches : JobSearches[i].company = c}

\* C2: no two stored job-search records of the FlatMap document have the
\* same url (a repeat submission adds no second record).
C2_UrlUnique ==
    "job_searches" \in DOMAIN edge =>
        \A i, j \in DOMAIN JobSearches :
            JobSearches[i].url = JobSearches[j].url => i = j

\* C4: after completed saves and deletes, companies[C].total_posts is the
\* number of persisted job searches of C, and a company without an entry
\* has none.
C4_TotalPostsMatchesPersisted ==
    Settled =>
        \A c \in {"A", "B"} :
            IF c \in DOMAIN edge["companies"]
            THEN edge["companies"][c].total_posts = Cardinality(PersistedOf(c))
            ELSE PersistedOf(c) = {}

\* C5: after a completed save for company C, companies[C] equals the
\* recomputation over the persisted job searches of C: ghost_posts, the
\* average, the minimum, the maximum and the platforms seen.
C5_CompanyEqualsRecomputation ==
    (/\ Settled
     /\ ret[1].op = "save_job_analysis"
     /\ ret[1].result \in DOMAIN JobSearches) =>
        LET c == JobSearches[ret[1].result].company
            ids == PersistedOf(c)
            p == [i \in ids |-> JobSearches[i].ghost_probability]
            co == edge["companies"][c]
        IN /\ co.ghost_posts = Cardinality({i \in ids : p[i] >= 67})
           /\ co.avg_ghost_probability.num * Cardinality(ids)
                = SumOver(p, ids) * co.avg_ghost_probability.den
           /\ \A i \in ids : co.min_ghost_probability <= p[i]
           /\ \A i \in ids : co.max_ghost_probability >= p[i]
           /\ \E i \in ids : co.min_ghost_probability = p[i]
           /\ \E i \in ids : co.max_ghost_probability = p[i]
           /\ co.platforms_seen = {JobSearches[i].platform : i \in ids}

\* C6: once a delete of id X has returned true, no key factor and no
\* parsing metadata with search_id X is stored and X is not found.
C6_DeleteCascades ==
    (/\ Settled
     /\ ret[1].op = "delete_analysis"
     /\ ret[1].result = TRUE) =>
        /\ ret[1].arg \notin DOMAIN JobSearches
        /\ \A f \in DOMAIN edge["key_factors"] :
              edge["key_factors"][f].search_id # ret[1].arg
        /\ \A m \in DOMAIN edge["parsing_metadata"] :
              edge["parsing_metadata"][m].search_id # ret[1].arg

\* C7: every stored key factor and every stored parsing metadata entry
\* has the search_id of a stored job search.
C7_NoOrphans ==
    Settled =>
        /\ \A f \in DOMAIN edge["key_factors"] :
              edge["key_factors"][f].search_id \in DOMAIN JobSearches
        /\ \A m \in DOMAIN edge["parsing_metadata"] :
              edge["parsing_metadata"][m].search_id \in DOMAIN JobSearches

\* handler w has returned the id of a saved analysis and its write replaced
\* the whole document
SavedAll(w) ==
    /\ pc[w] = "idle"
    /\ ret[w].op = "save_job_analysis"
    /\ ret[w].result # Raised
    /\ ret[w].written = Sections

\* the two calls of the claim: v wrote the document between the read and the
\* write of w, both for different urls, both returned an id
LostUpdateCase(v, w) ==
    /\ v # w
    /\ SavedAll(v)
    /\ SavedAll(w)
    /\ ret[w].stale
    /\ ret[v].arg # ret[w].arg

\* C8: when two save_job_analysis calls for different urls overlap (one
\* writes between the other's read and write), both return an id and the
\* document holds the record of the later writer only: the earlier
\* writer's record is lost, nothing rejects the stale write.
C8_StaleWriteLosesUpdate ==
    \A v, w \in Workers :
        LostUpdateCase(v, w) =>
            /\ \A i \in DOMAIN JobSearches : JobSearches[i].url # ret[v].arg
            /\ \E i \in DOMAIN JobSearches : JobSearches[i].url = ret[w].arg

\* both calls have returned an id after overlapping
C8_Witness ==
    \E v, w \in Workers :
        /\ LostUpdateCase(v, w)
        /\ ret[v].result # ret[w].result
        /\ Cardinality(DOMAIN JobSearches) = 1

\* C9: a FlatMap write is all or nothing: when _save_all_data returns, either
\* every section holds what the call wrote or the document is as it was.
C9_WriteAllOrNothing ==
    [][(pc[1] = "save_all_data" /\ pc'[1] = "idle") =>
        \/ edge' = PutSections(edge, Updates(call[1].data), Sections)
        \/ edge' = edge]_vars

\* C10: a save_job_analysis that returns an analysis id has persisted the
\* record: the document holds a job search with that id and the url.
C10_ReturnedIdIsPersisted ==
    [][(/\ pc[1] = "save_all_data"
        /\ pc'[1] = "idle"
        /\ ret'[1].op = "save_job_analysis") =>
          /\ "job_searches" \in DOMAIN edge'
          /\ ret'[1].result \in DOMAIN edge'["job_searches"]
          /\ edge'["job_searches"][ret'[1].result].url = ret'[1].arg]_vars

\* =====================================================================
\* Validation of what is written
\* =====================================================================

\* the probabilities a caller passes, in hundredths: below the range, its two
\* ends and above it (1.5)
SubmittedProbs == {-10, 0, 100, 150}

\* Field(..., ge=0.0, le=1.0) of JobSearchCreate
InRange(p) == 0 <= p /\ p <= 100

\* main.analyze_job: JobSearchCreate(...) is constructed, which validates,
\* and only then handed to create_job_search
analyze_job(url, company, prob, nf, meta, t) ==
    IF InRange(prob)
    THEN create_job_search(url, company, prob, nf, meta, t, FALSE)
    ELSE /\ pc[1] = "idle"
         /\ ops < MaxOps
         /\ ret' = [ret EXCEPT ![1] = Returned("JobSearchCreate", url, Raised, {}, FALSE)]
         /\ ops' = ops + 1
         /\ UNCHANGED <<db, edge, mock_storage, now, faults, pc, call>>

ValidatedCreate ==
    \E url \in {"u1", "u2"}, prob \in SubmittedProbs, kids \in ChildInputs, t \in Times :
        analyze_job(url, "A", prob, kids.nf, kids.meta, t)

\* VercelEdgeManager.save_job_analysis called with the analysis as it comes
UncheckedSave ==
    \E url \in {"u1", "u2"}, prob \in SubmittedProbs, kids \in EdgeChildInputs, t \in Times :
        save_job_analysis(1, url, "A", prob, kids.nf, kids.meta, t, TRUE)

ValidationNext == ValidatedCreate \/ UncheckedSave \/ ReliableWrite

SpecValidation == InitEdge /\ [][ValidationNext]_vars

\* C11: every persisted job search, relational or FlatMap, has a
\* ghost_probability within [0, 1]; a value such as 1.5 is never persisted.
C11_ProbabilitiesInRange ==
    /\ \A i \in DOMAIN db.job_searches : InRange(db.job_searches[i].ghost_probability)
    /\ "job_searches" \in DOMAIN edge =>
          \A i \in DOMAIN JobSearches : InRange(JobSearches[i].ghost_probability)

\* =====================================================================
\* Statistics
\* =====================================================================

\* SQL NULL: what SUM(...) gives over no rows
Null == -2

\* SUM(CASE WHEN cond THEN 1 ELSE 0 END) over the rows ids, of which the
\* rows matching satisfy cond
SqlSumCase(ids, matching) ==
    IF ids = {} THEN Null ELSE Cardinality(matching)

\* Python's `x or 0`
OrZero(x) == IF x = Null THEN 0 ELSE x

\* the sums as DatabaseManager reads them: stats[k] or 0
SqlSumCaseOrZero(ids, matching) == OrZero(SqlSumCase(ids, matching))

\* sum(1 for prob in ghost_probs if cond)
PySumOnes(ids, matching) == Cardinality(matching)

\* the rows each of the three conditions of every implementation selects
\* among the probabilities p[i], i \in ids
RiskBuckets(p, ids) ==
    [high |-> {i \in ids : p[i] >= 67},
     medium |-> {i \in ids : p[i] >= 34 /\ p[i] < 67},
     low |-> {i \in ids : p[i] < 34}]

\* the counts of an answer
Counts(n, high, medium, low) ==
    [total_analyses |-> n, high_risk_count |-> high,
     medium_risk_count |-> medium, low_risk_count |-> low]

\* DatabaseManager.get_analysis_stats(days_back): every row of a run is
\* younger than the cutoff (30 days), so the WHERE clause keeps them all
db_get_analysis_stats(d) ==
    LET ids == DOMAIN d.job_searches
        p == [i \in ids |-> d.job_searches[i].ghost_probability]
        b == RiskBuckets(p, ids)
    IN Counts(Cardinality(ids), SqlSumCaseOrZero(ids, b.high),
              SqlSumCaseOrZero(ids, b.medium), SqlSumCaseOrZero(ids, b.low))

\* AnalysisService.get_analysis_stats(): the sums are returned as fetched
service_get_analysis_stats(d) ==
    LET ids == DOMAIN d.job_searches
        p == [i \in ids |-> d.job_searches[i].ghost_probability]
        b == RiskBuckets(p, ids)
    IN Counts(Cardinality(ids), SqlSumCase(ids, b.high),
              SqlSumCase(ids, b.medium), SqlSumCase(ids, b.low))

\* VercelEdgeManager.get_analysis_stats()
edge_get_analysis_stats(all_data) ==
    LET js == IF "job_searches" \in DOMAIN all_data
              THEN all_data["job_searches"] ELSE NoDocument
        ids == DOMAIN js
        p == [i \in ids |-> js[i].ghost_probability]
        b == RiskBuckets(p, ids)
    IN IF ids = {}
       THEN Counts(0, 0, 0, 0)
       ELSE Counts(Cardinality(ids), PySumOnes(ids, b.high),
                   PySumOnes(ids, b.medium), PySumOnes(ids, b.low))

\* VercelAnalysisService.get_analysis_stats() without Edge Config
mock_get_analysis_stats(mock_analyses) ==
    LET ids == DOMAIN mock_analyses
        p == [i \in ids |-> mock_analyses[i].ghost_probability]
        b == RiskBuckets(p, ids)
    IN IF ids = {}
       THEN Counts(0, 0, 0, 0)
       ELSE Counts(Cardinality(ids), PySumOnes(ids, b.high),
                   PySumOnes(ids, b.medium), PySumOnes(ids, b.low))

\* the sequences that list every element of S once
Perms(S) ==
    {q \in [1..Cardinality(S) -> S] : \A i, j \in DOMAIN q : q[i] = q[j] => i = j}

\* ORDER BY / sorted: the listings of S in which no element comes after one
\* it precedes (before: the pairs <<a, b>> with a ahead of b); rows that tie
\* come in any order
Orderings(S, before) ==
    {q \in Perms(S) : \A i, j \in DOMAIN q : i < j => <<q[j], q[i]>> \notin before}

\* LIMIT n / [:n]
Take(q, n) == SubSeq(q, 1, Min(n, Len(q)))

\* a.avg_ghost_probability > b.avg_ghost_probability, on exact fractions
AvgGreater(a, b) ==
    a.avg_ghost_probability.num * b.avg_ghost_probability.den
        > b.avg_ghost_probability.num * a.avg_ghost_probability.den

AvgEqual(a, b) ==
    a.avg_ghost_probability.num * b.avg_ghost_probability.den
        = b.avg_ghost_probability.num * a.avg_ghost_probability.den

\* ORDER BY avg_ghost_probability DESC, total_posts DESC
\* key=(avg_ghost_probability, total_posts), reverse=True
ByAvgThenPosts(a, b) ==
    \/ AvgGreater(a, b)
    \/ AvgEqual(a, b) /\ a.total_posts > b.total_posts

\* ORDER BY avg_ghost_probability DESC
ByAvg(a, b) == AvgGreater(a, b)

\* the pairs of S ordered by avg_ghost_probability DESC, total_posts DESC
PairsByAvgThenPosts(S) == {ab \in S \X S : ByAvgThenPosts(ab[1], ab[2])}

\* the pairs of S ordered by avg_ghost_probability DESC
PairsByAvg(S) == {ab \in S \X S : ByAvg(ab[1], ab[2])}

\* the entry of a company in top_ghost_companies
TopEntry(co) ==
    [company |-> co.company_name,
     avg_ghost_probability |-> co.avg_ghost_probability,
     total_posts |-> co.total_posts]

Entries(q) == [k \in DOMAIN q |-> TopEntry(q[k])]

Rows(companies) == {companies[c] : c \in DOMAIN companies}

\* DatabaseManager.get_analysis_stats: WHERE total_posts >= 2 ORDER BY
\* avg_ghost_probability DESC, total_posts DESC LIMIT 10
db_top_ghost_companies(d) ==
    LET S == {co \in Rows(d.companies) : co.total_posts >= 2}
    IN {Entries(Take(q, 10)) : q \in Orderings(S, PairsByAvgThenPosts(S))}

\* AnalysisService.get_analysis_stats: ORDER BY avg_ghost_probability DESC
\* LIMIT 5
service_top_ghost_companies(d) ==
    {Entries(Take(q, 5)) :
        q \in Orderings(Rows(d.companies), PairsByAvg(Rows(d.companies)))}

\* VercelEdgeManager.get_analysis_stats: sorted(companies, key, reverse)[:5],
\* or the empty answer when there is no job search
edge_top_ghost_companies(all_data) ==
    IF "job_searches" \notin DOMAIN all_data \/ DOMAIN all_data["job_searches"] = {}
    THEN {<<>>}
    ELSE LET companies == IF "companies" \in DOMAIN all_data
                          THEN all_data["companies"] ELSE NoDocument
         IN {Entries(Take(q, 5)) :
                q \in Orderings(Rows(companies), PairsByAvgThenPosts(Rows(companies)))}

\* the mock answer: "top_ghost_companies": []
mock_top_ghost_companies == {<<>>}

Implementations == {"DatabaseManager", "AnalysisService", "VercelEdgeManager", "mock"}

StatsOf(impl) ==
    CASE impl = "DatabaseManager" -> db_get_analysis_stats(db)
      [] impl = "AnalysisService" -> service_get_analysis_stats(db)
      [] impl = "VercelEdgeManager" -> edge_get_analysis_stats(get_all_data(edge, TRUE))
      [] OTHER -> mock_get_analysis_stats(mock_storage)

TopOf(impl) ==
    CASE impl = "DatabaseManager" -> db_top_ghost_companies(db)
      [] impl = "AnalysisService" -> service_top_ghost_companies(db)
      [] impl = "VercelEdgeManager" -> edge_top_ghost_companies(get_all_data(edge, TRUE))
      [] OTHER -> mock_top_ghost_companies

\* get_analysis_stats() of one implementation, called between two writes
get_analysis_stats(impl, top) ==
    /\ pc[1] = "idle"
    /\ ret' = [ret EXCEPT ![1] =
                  Returned("get_analysis_stats", impl,
                           [counts |-> StatsOf(impl), top_ghost_companies |-> top],
                           {}, FALSE)]
    /\ UNCHANGED <<db, edge, mock_storage, now, ops, faults, pc, call>>

\* the analyses of the statistics runs: the scores on both sides of the two
\* thresholds (0.67 and 0.34), two companies
StatsInputs ==
    {[url |-> "u1", company |-> "A", prob |-> 67],
     [url |-> "u2", company |-> "A", prob |-> 34],
     [url |-> "u3", company |-> "B", prob |-> 66],
     [url |-> "u4", company |-> "B", prob |-> 33]}

StatsSaveDb ==
    \E job \in StatsInputs, t \in Times :
        save_analysis_to_database(job.url, job.company, job.prob, 0, t, FALSE)

StatsSaveEdge ==
    \E job \in StatsInputs, t \in Times :
        save_job_analysis(1, job.url, job.company, job.prob, 0, FALSE, t, TRUE)

StatsSaveMock ==
    \E job \in StatsInputs, t \in Times :
        save_analysis_to_storage_mock(job.url, job.company, job.prob, t)

StatsRead == \E impl \in Implementations : \E top \in TopOf(impl) :
                get_analysis_stats(impl, top)

StatsNext == StatsSaveDb \/ StatsSaveEdge \/ ReliableWrite \/ StatsSaveMock \/ StatsRead

SpecStats == InitEdge /\ [][StatsNext]_vars

\* the probabilities of the records the implementation counts
CountedProbs(impl) ==
    CASE impl \in {"DatabaseManager", "AnalysisService"} ->
            [i \in DOMAIN db.job_searches |-> db.job_searches[i].ghost_probability]
      [] impl = "VercelEdgeManager" ->
            IF "job_searches" \in DOMAIN edge
            THEN [i \in DOMAIN JobSearches |-> JobSearches[i].ghost_probability]
            ELSE NoDocument
      [] OTHER -> [i \in DOMAIN mock_storage |-> mock_storage[i].ghost_probability]

\* C12: the statistics of every implementation put each counted record in
\* exactly one bucket: high iff p >= 0.67, medium iff 0.34 <= p < 0.67, low
\* iff p < 0.34; the three counts add up to total_analyses.
C12_RiskBucketsPartition ==
    ret[1].op = "get_analysis_stats" =>
        LET p == CountedProbs(ret[1].arg)
            s == ret[1].result.counts
        IN /\ s.total_analyses = Cardinality(DOMAIN p)
           /\ s.high_risk_count = Cardinality({i \in DOMAIN p : p[i] >= 67})
           /\ s.medium_risk_count = Cardinality({i \in DOMAIN p : 34 <= p[i] /\ p[i] < 67})
           /\ s.low_risk_count = Cardinality({i \in DOMAIN p : p[i] < 34})
           /\ s.high_risk_count + s.medium_risk_count + s.low_risk_count
                 = s.total_analyses

\* =====================================================================
\* History queries (relational store)
\* =====================================================================

\* AnalysisFilters(): every field None.  A string field that is not given is
\* "", a number or date that is not given is Null.
NoFilters ==
    [platform |-> "", company |-> "", min_ghost_probability |-> Null,
     max_ghost_probability |-> Null, start_date |-> Null, end_date |-> Null,
     risk_level |-> ""]

\* js.company LIKE '%name%': the company names of a run are single letters,
\* so containing the name is being the name
Like(company, name) == company = name

\* the clause with the upper probability bound as a strict comparison
WhereBelowMax(d, f, i) ==
    LET js == d.job_searches[i]
    IN /\ f.platform # "" => js.platform = f.platform
       /\ f.min_ghost_probability # Null => js.ghost_probability >= f.min_ghost_probability
       /\ f.max_ghost_probability # Null => js.ghost_probability < f.max_ghost_probability

\* the WHERE clause built from the filters, on row i of job_searches LEFT
\* JOINed to the companies row of its company (c.risk_level is NULL, and
\* equal to nothing, when there is none)
Where(d, f, i) ==
    LET js == d.job_searches[i]
    IN /\ f.platform # "" => js.platform = f.platform
       /\ f.company # "" => Like(js.company, f.company)
       /\ f.min_ghost_probability # Null => js.ghost_probability >= f.min_ghost_probability
       /\ f.max_ghost_probability # Null => js.ghost_probability <= f.max_ghost_probability
       /\ f.start_date # Null => js.analysis_date >= f.start_date
       /\ f.end_date # Null => js.analysis_date <= f.end_date
       /\ f.risk_level # "" =>
             /\ js.company \in DOMAIN d.companies
             /\ d.companies[js.company].risk_level = f.risk_level

\* the rows the two queries select; filters = None builds no clause
Selected(d, f, filtered) ==
    {i \in DOMAIN d.job_searches : filtered => Where(d, f, i)}

valid_order_columns == {"analysis_date", "ghost_probability", "company"}

\* ORDER BY js.<order_by> ASC|DESC on ids a, b; an unknown column name
\* falls back to analysis_date
OrderedBefore(d, order_by, order_desc, a, b) ==
    LET col == IF order_by \in valid_order_columns THEN order_by ELSE "analysis_date"
        x == d.job_searches[a]
        y == d.job_searches[b]
        less == CASE col = "analysis_date" -> x.analysis_date < y.analysis_date
                  [] col = "ghost_probability" -> x.ghost_probability < y.ghost_probability
                  [] OTHER -> x.company = "A" /\ y.company = "B"
        greater == CASE col = "analysis_date" -> x.analysis_date > y.analysis_date
                     [] col = "ghost_probability" -> x.ghost_probability > y.ghost_probability
                     [] OTHER -> x.company = "B" /\ y.company = "A"
    IN IF order_desc THEN greater ELSE less

\* an offset counted from page 0
OffsetFromPageZero(page, page_size) == page * page_size

\* offset = (page - 1) * page_size
Offset(page, page_size) == (page - 1) * page_size

\* LIMIT page_size OFFSET offset on the listing q
LimitOffset(q, page_size, offset) ==
    SubSeq(q, offset + 1, Min(offset + page_size, Len(q)))

\* DatabaseManager.get_job_searches(filters, page, page_size, order_by,
\* order_desc): the answers the two queries can give (rows that tie in the
\* ORDER BY column come in any order)
get_job_searches(d, f, filtered, page, page_size, order_by, order_desc) ==
    LET ids == Selected(d, f, filtered)
        before == {ab \in ids \X ids :
                      OrderedBefore(d, order_by, order_desc, ab[1], ab[2])}
    IN {[total_count |-> Cardinality(ids),
         page |-> page,
         page_size |-> page_size,
         analyses |-> LimitOffset(q, page_size, Offset(page, page_size))] :
            q \in Orderings(ids, before)}

\* pages 1..MaxPage and page sizes 1..MaxPageSize are asked for
MaxPage == 3
MaxPageSize == 2

\* validator of AnalysisFilters: each bound within [0, 1] and, when both are
\* given, max not below min
ValidFilters(f) ==
    /\ f.min_ghost_probability # Null => InRange(f.min_ghost_probability)
    /\ f.max_ghost_probability # Null => InRange(f.max_ghost_probability)
    /\ (f.min_ghost_probability # Null /\ f.max_ghost_probability # Null) =>
          f.max_ghost_probability >= f.min_ghost_probability

\* the filters of the queries made
FilterInputs ==
    {NoFilters,
     [NoFilters EXCEPT !.platform = "linkedin"],
     [NoFilters EXCEPT !.min_ghost_probability = 34, !.max_ghost_probability = 66],
     [NoFilters EXCEPT !.start_date = 1, !.end_date = 1],
     [NoFilters EXCEPT !.risk_level = "medium"],
     [NoFilters EXCEPT !.platform = "indeed", !.min_ghost_probability = 34,
                       !.risk_level = "high"],
     [NoFilters EXCEPT !.min_ghost_probability = 67, !.max_ghost_probability = 33]}

OrderInputs == {<<"analysis_date", TRUE>>, <<"ghost_probability", FALSE>>, <<"id", TRUE>>}

Query(f, filtered, page, page_size) ==
    [filters |-> f, filtered |-> filtered, page |-> page, page_size |-> page_size]

\* the read operations; a run makes one query of a store between two writes
\* to it (the store is as the write left it, a second query sees the same)
Queries == {"get_job_searches", "get_analysis_history", "AnalysisFilters"}

\* a caller constructs AnalysisFilters(...), which validates, and calls
\* db_manager.get_job_searches(filters, page, page_size, order_by, order_desc)
history_query(f, page, page_size, order) ==
    /\ ret[1].op \notin Queries
    /\ IF ValidFilters(f)
       THEN \E r \in get_job_searches(db, f, TRUE, page, page_size, order[1], order[2]) :
               ret' = [ret EXCEPT ![1] =
                          Returned("get_job_searches", Query(f, TRUE, page, page_size),
                                   r, {}, FALSE)]
       ELSE ret' = [ret EXCEPT ![1] =
                       Returned("AnalysisFilters", Query(f, TRUE, page, page_size),
                                Raised, {}, FALSE)]
    /\ UNCHANGED <<db, edge, mock_storage, now, ops, faults, pc, call>>

\* the query parameters of GET /api/v1/history
HandlerInputs ==
    {[platform |-> "", min |-> Null, max |-> Null],
     [platform |-> "linkedin", min |-> Null, max |-> Null],
     [platform |-> "", min |-> 34, max |-> 66],
     [platform |-> "", min |-> Null, max |-> 0],
     [platform |-> "", min |-> 67, max |-> 33]}

\* Python truth of a query parameter: None, "" and 0.0 are false
TruthyText(x) == x # ""
TruthyNumber(x) == x # Null /\ x # 0

\* main.get_analysis_history(page, page_size, platform, company, min, max):
\* the filters are built by assignment to an empty AnalysisFilters() and are
\* passed on only if any parameter is true
get_analysis_history(page, page_size, q) ==
    LET f == [NoFilters EXCEPT !.platform = q.platform,
                               !.min_ghost_probability = q.min,
                               !.max_ghost_probability = q.max]
        filtered == TruthyText(q.platform) \/ TruthyNumber(q.min) \/ TruthyNumber(q.max)
    IN /\ ret[1].op \notin Queries
       /\ \E r \in get_job_searches(db, f, filtered, page, page_size, "analysis_date", TRUE) :
             ret' = [ret EXCEPT ![1] =
                        Returned("get_analysis_history", Query(f, filtered, page, page_size),
                                 r, {}, FALSE)]
       /\ UNCHANGED <<db, edge, mock_storage, now, ops, faults, pc, call>>

HistSave ==
    \E job \in StatsInputs, t \in Times :
        save_analysis_to_database(job.url, job.company, job.prob, 0, t, FALSE)

HistQuery ==
    \E f \in FilterInputs, page \in 1..MaxPage, page_size \in 1..MaxPageSize,
       order \in OrderInputs :
        history_query(f, page, page_size, order)

HistHandler ==
    \E q \in HandlerInputs, page \in 1..MaxPage, page_size \in 1..MaxPageSize :
        get_analysis_history(page, page_size, q)

HistNext == HistSave \/ HistQuery \/ HistHandler

SpecHistory == Init /\ [][HistNext]_vars

\* the job searches that satisfy every filter that is given: platform equal,
\* probability and date within the closed ranges, risk level that of the
\* company's row
Matching(f) ==
    {i \in DOMAIN db.job_searches :
        LET js == db.job_searches[i]
        IN /\ f.platform = "" \/ js.platform = f.platform
           /\ f.company = "" \/ js.company = f.company
           /\ f.min_ghost_probability = Null \/ f.min_ghost_probability <= js.ghost_probability
           /\ f.max_ghost_probability = Null \/ js.ghost_probability <= f.max_ghost_probability
           /\ f.start_date = Null \/ f.start_date <= js.analysis_date
           /\ f.end_date = Null \/ js.analysis_date <= f.end_date
           /\ f.risk_level = "" \/ db.companies[js.company].risk_level = f.risk_level}

\* C13: get_job_searches with page >= 1 and page_size >= 1 returns
\* total_count = T, the number of job searches matching the filters, whatever
\* the page, and exactly min(page_size, max(0, T - (page-1)*page_size)) items.
C13_PageHoldsItsShare ==
    ret[1].op = "get_job_searches" =>
        LET q == ret[1].arg
            T == Cardinality(Matching(q.filters))
        IN /\ ret[1].result.total_count = T
           /\ Len(ret[1].result.analyses)
                 = Min(q.page_size, Max(0, T - (q.page - 1) * q.page_size))

\* the last page of three records in pages of two: one item, total_count 3
C13_Witness ==
    /\ ret[1].op = "get_job_searches"
    /\ ret[1].arg.page = 2
    /\ ret[1].arg.page_size = 2
    /\ ret[1].result.total_count = 3
    /\ Len(ret[1].result.analyses) = 1

\* C14: get_job_searches selects exactly the job searches that satisfy every
\* supplied filter: none that matches is left out of total_count, none that
\* does not match is returned.
C14_FiltersSelectExactly ==
    ret[1].op = "get_job_searches" =>
        LET q == ret[1].arg
            r == ret[1].result
        IN /\ r.total_count = Cardinality(Matching(q.filters))
           /\ \A k \in DOMAIN r.analyses : r.analyses[k] \in Matching(q.filters)
           /\ \A k, l \in DOMAIN r.analyses : r.analyses[k] = r.analyses[l] => k = l

\* the range [0.34, 0.66] selects the records at 0.34 and at 0.66 and leaves
\* out the one at 0.67
C14_Witness ==
    /\ ret[1].op = "get_job_searches"
    /\ ret[1].arg.filters.min_ghost_probability = 34
    /\ ret[1].arg.filters.max_ghost_probability = 66
    /\ ret[1].arg.page = 1
    /\ Cardinality(DOMAIN db.job_searches) = 3
    /\ {db.job_searches[ret[1].result.analyses[k]].ghost_probability :
            k \in DOMAIN ret[1].result.analyses} = {34, 66}

\* C15: a history query whose max_ghost_probability is below its
\* min_ghost_probability fails validation and returns no result list,
\* whether the filters are constructed with the two values or built by the
\* /api/v1/history handler.
C15_InvertedRangeFailsValidation ==
    (/\ ret[1].op \in {"get_job_searches", "get_analysis_history", "AnalysisFilters"}
     /\ ret[1].arg.filters.min_ghost_probability # Null
     /\ ret[1].arg.filters.max_ghost_probability # Null
     /\ ret[1].arg.filters.max_ghost_probability < ret[1].arg.filters.min_ghost_probability)
        => (ret[1].op = "AnalysisFilters" /\ ret[1].result = Raised)

\* =====================================================================
\* FlatMap retention and company risk level
\* =====================================================================

\* C16: when _save_all_data has returned, the persisted job_searches are at
\* most the window's size, they are the most recent by analysis_date of the
\* document that was saved, and every companies entry of that document is
\* persisted.
C16_WindowKeepsMostRecent ==
    [][(pc[1] = "save_all_data" /\ pc'[1] = "idle") =>
        LET saved == call[1].data["job_searches"]
        IN /\ {"job_searches", "companies"} \subseteq DOMAIN edge'
           /\ DOMAIN edge'["job_searches"] \subseteq DOMAIN saved
           /\ \A i \in DOMAIN edge'["job_searches"] : edge'["job_searches"][i] = saved[i]
           /\ Cardinality(DOMAIN edge'["job_searches"])
                 = Min(RECENT_LIMIT, Cardinality(DOMAIN saved))
           /\ \A k \in DOMAIN edge'["job_searches"] :
                 \A x \in DOMAIN saved \ DOMAIN edge'["job_searches"] :
                    saved[k].analysis_date >= saved[x].analysis_date
           /\ edge'["companies"] = call[1].data["companies"]]_vars

\* C17: a companies entry of the FlatMap document has risk_level high iff
\* its avg_ghost_probability >= 0.67, medium iff 0.34 <= avg < 0.67 and low
\* otherwise; the entry of a company with a stored job search is never
\* 'unknown'.
C17_RiskLevelFollowsAverage ==
    "companies" \in DOMAIN edge =>
        \A c \in DOMAIN edge["companies"] :
            LET co == edge["companies"][c]
                n == co.avg_ghost_probability.num
                d == co.avg_ghost_probability.den
            IN /\ co.risk_level = "high" <=> n >= 67 * d
               /\ co.risk_level = "medium" <=> (34 * d <= n /\ n < 67 * d)
               /\ co.risk_level = "low" <=> n < 34 * d
               /\ co.risk_level # "unknown"

\* a save has completed, company A's average is exactly 0.67 and its level
\* is high, company B's level is low
C17_Witness ==
    /\ Settled
    /\ ret[1].op = "save_job_analysis"
    /\ {"A", "B"} \subseteq DOMAIN edge["companies"]
    /\ edge["companies"]["A"].avg_ghost_probability = [num |-> 67, den |-> 1]
    /\ edge["companies"]["A"].risk_level = "high"
    /\ edge["companies"]["B"].risk_level = "low"
    /\ PersistedOf("A") # {}

\* C18: the top ghost companies of every get_analysis_stats hold only
\* companies with total_posts >= 2, by avg_ghost_probability descending,
\* ties by total_posts descending.
C18_TopCompaniesRanked ==
    ret[1].op = "get_analysis_stats" =>
        LET top == ret[1].result.top_ghost_companies
        IN /\ \A k \in DOMAIN top : top[k].total_posts >= 2
           /\ \A k, l \in DOMAIN top :
                 k < l => ~ByAvgThenPosts(top[l], top[k])

\* =====================================================================
\* Relational store: duplicates and deletes
\* =====================================================================

\* C19: a create_job_search / save_analysis_to_database call whose url is
\* already stored leaves the job searches, the key factors, the parsing
\* metadata and the company aggregates exactly as they were.
C19_DuplicateChangesNothing ==
    [][(/\ IsCreate(ret'[1])
        /\ ops' = ops + 1
        /\ \E i \in DOMAIN db.job_searches : db.job_searches[i].url = ret'[1].arg) =>
          /\ db'.job_searches = db.job_searches
          /\ db'.key_factors = db.key_factors
          /\ db'.parsing_metadata = db.parsing_metadata
          /\ db'.companies = db.companies]_vars

\* save_analysis_to_database, which always brings parsing metadata, has
\* returned the id of a job search that was stored without any
C19_Witness ==
    /\ ret[1].op = "save_analysis_to_database"
    /\ ret[1].result \in DOMAIN db.job_searches
    /\ db.job_searches[ret[1].result].url = ret[1].arg
    /\ ret[1].result \notin db.parsing_metadata
    /\ db.companies[db.job_searches[ret[1].result].company].total_posts = 1

\* C20: delete returns true iff a record with the id was stored when the
\* call started; a delete of an id that is not stored returns false and
\* leaves the store unchanged.  (For the FlatMap store: on a document that
\* has its five sections.)
C20_DeleteReportsExistence ==
    [][(/\ ops' = ops + 1
        /\ ret'[1].op \in {"delete_job_search", "delete_analysis"}
        /\ ret'[1].op = "delete_analysis" => Sections \subseteq DOMAIN edge) =>
          LET id == ret'[1].arg
              stored == IF ret'[1].op = "delete_job_search"
                        THEN id \in DOMAIN db.job_searches
                        ELSE id \in DOMAIN edge["job_searches"]
          IN /\ ret'[1].result <=> stored
             /\ ~stored => (db' = db /\ edge' = edge)]_vars

\* =====================================================================
\* Reading back what was analysed
\* =====================================================================

\* the pairs of ids with the first analysed later than the second
\* (ORDER BY analysis_date DESC / sort(key=analysis_date, reverse=True))
PairsByDateDesc(js) ==
    {ab \in (DOMAIN js) \X (DOMAIN js) :
        js[ab[1]].analysis_date > js[ab[2]].analysis_date}

\* AnalysisService.get_analysis_history(limit): the ids of the rows, most
\* recent first, LIMIT limit
service_get_analysis_history(d, limit) ==
    {Take(q, limit) : q \in Orderings(DOMAIN d.job_searches, PairsByDateDesc(d.job_searches))}

\* VercelEdgeManager.get_analysis_history(limit): the ids of the job searches
\* of the snapshot, most recent first, [:limit]
edge_get_analysis_history(all_data, limit) ==
    LET js == IF "job_searches" \in DOMAIN all_data
              THEN all_data["job_searches"] ELSE NoDocument
    IN {Take(q, limit) : q \in Orderings(DOMAIN js, PairsByDateDesc(js))}

\* the mock history: the last `limit` values of mock_analyses in insertion
\* order (the order of the ids, which come from the clock), reversed
mock_get_analysis_history(mock_analyses, limit) ==
    LET ids == DOMAIN mock_analyses
        later == {ab \in ids \X ids : ab[1] > ab[2]}
    IN {Take(q, limit) : q \in Orderings(ids, later)}

\* the three services that offer analyze_job_complete, get_analysis_history
\* and get_analysis_stats
Services == {"AnalysisService", "VercelEdgeManager", "mock"}

HistoryOf(service, limit, readok) ==
    CASE service = "AnalysisService" -> service_get_analysis_history(db, limit)
      [] service = "VercelEdgeManager" ->
            edge_get_analysis_history(get_all_data(edge, readok), limit)
      [] OTHER -> mock_get_analysis_history(mock_storage, limit)

\* the urls a service has stored
StoredUrls(service) ==
    CASE service = "AnalysisService" ->
            {db.job_searches[i].url : i \in DOMAIN db.job_searches}
      [] service = "VercelEdgeManager" ->
            IF "job_searches" \in DOMAIN edge
            THEN {JobSearches[i].url : i \in DOMAIN JobSearches} ELSE {}
      [] OTHER -> {mock_storage[i].url : i \in DOMAIN mock_storage}

\* the ids a service has stored
StoredIds(service) ==
    CASE service = "AnalysisService" -> DOMAIN db.job_searches
      [] service = "VercelEdgeManager" ->
            IF "job_searches" \in DOMAIN edge THEN DOMAIN JobSearches ELSE {}
      [] OTHER -> DOMAIN mock_storage

\* limits 1..MaxLimit are asked for
MaxLimit == 2

\* get_analysis_history(limit) of a service, right after a write to it
read_history(service, limit, h) ==
    /\ pc[1] = "idle"
    /\ ret[1].op \notin {"get_analysis_history", "get_analysis_stats"}
    /\ ret' = [ret EXCEPT ![1] =
                  Returned("get_analysis_history", service, h, {}, FALSE)]
    /\ UNCHANGED <<db, edge, mock_storage, now, ops, faults, pc, call>>

\* get_analysis_stats() of a service, right after a write to it
read_stats(service) ==
    /\ pc[1] = "idle"
    /\ ret[1].op \notin {"get_analysis_history", "get_analysis_stats"}
    /\ ret' = [ret EXCEPT ![1] =
                  Returned("get_analysis_stats", service,
                           [counts |-> StatsOf(service), top_ghost_companies |-> <<>>],
                           {}, FALSE)]
    /\ UNCHANGED <<db, edge, mock_storage, now, ops, faults, pc, call>>

\* analyze_job_complete(url) for a url the service has not stored.  The
\* rows get their analysis_date from the schema; here each row is analysed
\* at a later reading of the clock than the one before it, so that the
\* ORDER BY of the history has no ties to break.
AnalyzeDb ==
    \E job \in StatsInputs, t \in Times :
        /\ job.url \notin StoredUrls("AnalysisService")
        /\ \A i \in DOMAIN db.job_searches : db.job_searches[i].analysis_date < t
        /\ save_analysis_to_database(job.url, job.company, job.prob, 0, t, FALSE)

AnalyzeEdge ==
    \E job \in StatsInputs, t \in Times, readok \in BOOLEAN :
        /\ job.url \notin StoredUrls("VercelEdgeManager")
        /\ save_job_analysis(1, job.url, job.company, job.prob, 0, FALSE, t, readok)

AnalyzeMock ==
    \E job \in StatsInputs, t \in Times :
        /\ job.url \notin StoredUrls("mock")
        /\ save_analysis_to_storage_mock(job.url, job.company, job.prob, t)

ReadHistory ==
    \E service \in Services, limit \in 1..MaxLimit :
        \E h \in HistoryOf(service, limit, TRUE) : read_history(service, limit, h)

ReadStats == \E service \in Services : read_stats(service)

ReadBackNext ==
    AnalyzeDb \/ AnalyzeEdge \/ EdgeWrite \/ AnalyzeMock \/ ReadHistory \/ ReadStats

SpecReadBack == InitEdge /\ [][ReadBackNext]_vars

\* the service whose analyze_job_complete has just returned
ServiceOf(op) ==
    CASE op = "save_analysis_to_database" -> "AnalysisService"
      [] op = "save_job_analysis" -> "VercelEdgeManager"
      [] OTHER -> "mock"

AnalyzeOps == {"save_analysis_to_database", "save_job_analysis", "save_analysis_to_storage"}

\* analyze_job_complete has returned an id
AnalyzeReturned ==
    /\ pc[1] = "idle"
    /\ ret[1].op \in AnalyzeOps
    /\ ret[1].result # Raised

\* C21: after analyze_job_complete for an unseen url has returned id X, the
\* next get_analysis_history(limit), limit >= 1, of the same service has an
\* entry with id X, and the next get_analysis_stats counts the analysis.
C21_ReadYourWrite ==
    [][(/\ AnalyzeReturned
        /\ ret'[1].op \in {"get_analysis_history", "get_analysis_stats"}
        /\ ret'[1].arg = ServiceOf(ret[1].op)) =>
          IF ret'[1].op = "get_analysis_history"
          THEN \E k \in DOMAIN ret'[1].result : ret'[1].result[k] = ret[1].result
          ELSE /\ ret[1].result \in StoredIds(ret'[1].arg)
               /\ ret'[1].result.counts.total_analyses
                     = Cardinality(StoredIds(ret'[1].arg))]_vars


\* =====================================================================
\* The request handlers over VercelAnalysisService
\* =====================================================================

\* VercelAnalysisService.__init__ when no VercelEdgeManager can be built:
\* the instance gets a mock_storage of its own, empty
NewMockStorage == <<>>

\* analyses[start_idx:end_idx] of the history handlers
PageSlice(analyses, page, page_size) ==
    SubSeq(analyses, Min((page - 1) * page_size, Len(analyses)) + 1,
           Min(page * page_size, Len(analyses)))

\* the query parameters of /api/history that filter: absent ("" / Null) or set
ApiFilterInputs ==
    {[platform |-> "", company |-> "", min |-> Null, max |-> Null],
     [platform |-> "linkedin", company |-> "", min |-> Null, max |-> Null],
     [platform |-> "", company |-> "A", min |-> Null, max |-> Null],
     [platform |-> "", company |-> "", min |-> 34, max |-> 67]}

\* the filters of the Vercel handler on one analysis of the page; the
\* dictionaries of get_analysis_history carry no 'platform' key, so
\* a.get('platform') is None for every analysis
ApiKeeps(js, f, i) ==
    /\ f.platform # "" => FALSE
    /\ f.company # "" => js[i].company = f.company
    /\ f.min # Null => js[i].ghost_probability >= f.min
    /\ f.max # Null => js[i].ghost_probability <= f.max

\* the response of /api/history built from the list get_analysis_history
\* returned: total_count is the length of that list
HistoryResponse(analyses, js, page, page_size, f) ==
    [total_count |-> Len(analyses),
     page |-> page, page_size |-> page_size,
     analyses |-> SelectSeq(PageSlice(analyses, page, page_size),
                            LAMBDA i : ApiKeeps(js, f, i))]

\* POST /api/analyze served without Edge Config: the handler constructs a
\* VercelAnalysisService for the request and stores the analysis in it
do_POST_mock(url, company, prob, t) ==
    /\ pc[1] = "idle"
    /\ ops < MaxOps
    /\ mock_storage' = Put(NewMockStorage, t,
                           [id |-> t, url |-> url, company |-> company,
                            ghost_probability |-> prob, timestamp |-> t])
    /\ ret' = [ret EXCEPT ![1] = Returned("POST /api/analyze", url, t, {}, FALSE)]
    /\ now' = t
    /\ ops' = ops + 1
    /\ UNCHANGED <<db, edge, faults, pc, call>>

\* GET /api/history served without Edge Config: a service constructed for
\* the request, get_analysis_history(page_size * page) on it
do_GET_history_mock(page, page_size, f) ==
    /\ pc[1] = "idle"
    /\ ret[1].op = "POST /api/analyze"
    /\ mock_storage' = NewMockStorage
    /\ \E analyses \in mock_get_analysis_history(mock_storage', page_size * page) :
          ret' = [ret EXCEPT ![1] =
                     Returned("GET /api/history", f,
                              HistoryResponse(analyses, mock_storage', page, page_size, f),
                              {}, FALSE)]
    /\ UNCHANGED <<db, edge, now, ops, faults, pc, call>>

\* GET /api/stats served without Edge Config
do_GET_stats_mock ==
    /\ pc[1] = "idle"
    /\ ret[1].op = "POST /api/analyze"
    /\ mock_storage' = NewMockStorage
    /\ ret' = [ret EXCEPT ![1] =
                  Returned("GET /api/stats", None,
                           mock_get_analysis_stats(mock_storage'), {}, FALSE)]
    /\ UNCHANGED <<db, edge, now, ops, faults, pc, call>>

ApiAnalyzeMock ==
    \E job \in StatsInputs, t \in Times : do_POST_mock(job.url, job.company, job.prob, t)

ApiHistoryMock ==
    \E page \in 1..MaxPage, page_size \in 1..MaxPageSize, f \in ApiFilterInputs :
        do_GET_history_mock(page, page_size, f)

ApiStatsMock == do_GET_stats_mock

MockApiNext == ApiAnalyzeMock \/ ApiHistoryMock \/ ApiStatsMock

SpecMockApi == Init /\ [][MockApiNext]_vars

\* C22: without an external store, the analysis an analyze request stored
\* is in the history and counted by the statistics that a later request of
\* the same process returns.
C22_FallbackKeepsAnalyses ==
    [][(ret[1].op = "POST /api/analyze"
        /\ ret'[1].op \in {"GET /api/history", "GET /api/stats"}) =>
          IF ret'[1].op = "GET /api/history"
          THEN ret'[1].result.total_count >= 1
          ELSE ret'[1].result.total_analyses >= 1]_vars


\* =====================================================================
\* Health checks
\* =====================================================================

\* VercelEdgeManager.health_check: the counts of the snapshot get_all_data
\* hands over; the except branch is taken when something in the try raises
edge_health_check(readok) ==
    /\ pc[1] = "idle"
    /\ ret[1].op # "health_check"
    /\ Failing(~readok)
    /\ LET all_data == get_all_data(edge, readok)
           job_count == IF "job_searches" \in DOMAIN all_data
                        THEN Cardinality(DOMAIN all_data["job_searches"]) ELSE 0
           company_count == IF "companies" \in DOMAIN all_data
                            THEN Cardinality(DOMAIN all_data["companies"]) ELSE 0
       IN ret' = [ret EXCEPT ![1] =
                     Returned("health_check",
                              [service |-> "VercelEdgeManager", reachable |-> readok],
                              [raised |-> FALSE, status |-> "healthy",
                               job_searches |-> job_count, companies |-> company_count],
                              {}, FALSE)]
    /\ UNCHANGED <<db, edge, mock_storage, now, ops, pc, call>>

\* DatabaseManager.health_check: get_connection() is called before the try,
\* the queries inside it
db_health_check(connected, queried) ==
    /\ pc[1] = "idle"
    /\ ret[1].op # "health_check"
    /\ Failing(~(connected /\ queried))
    /\ ret' = [ret EXCEPT ![1] =
                  Returned("health_check",
                           [service |-> "DatabaseManager",
                            reachable |-> connected /\ queried],
                           IF ~connected THEN [raised |-> TRUE]
                           ELSE IF ~queried
                           THEN [raised |-> FALSE, status |-> "unhealthy"]
                           ELSE [raised |-> FALSE, status |-> "healthy",
                                 job_searches |-> Cardinality(DOMAIN db.job_searches),
                                 companies |-> Cardinality(DOMAIN db.companies)],
                           {}, FALSE)]
    /\ UNCHANGED <<db, edge, mock_storage, now, ops, pc, call>>

HealthEdge == \E readok \in BOOLEAN : edge_health_check(readok)

HealthDb ==
    \E connected \in BOOLEAN, queried \in BOOLEAN :
        /\ connected \/ queried
        /\ db_health_check(connected, queried)

HealthNext == StatsSaveDb \/ ReliableSave \/ ReliableWrite \/ HealthEdge \/ HealthDb

SpecHealth == InitEdge /\ [][HealthNext]_vars

\* C23: a health check returns instead of raising, and when the store
\* could not be reached the status it returns is not 'healthy'.
C23_HealthReflectsStore ==
    ret[1].op = "health_check" =>
        /\ ~ret[1].result.raised
        /\ ~ret[1].arg.reachable => ret[1].result.status # "healthy"


\* =====================================================================
\* Platform detection
\* =====================================================================

\* Urls are sequences of parts: a network location and a path, each a
\* sequence of the pieces the tests look for and of pieces they ignore; a
\* url can come without a network location (urlparse gives hostname None)
\* and urlparse can raise ValueError on it.
MaxHostLen == 2
MaxPathLen == 1
HostParts == {"linkedin", "LinkedIn", "indeed", "glassdoor", "careers.", "acme"}
PathParts == {"/careers", "/jobs", "/Careers", "/view"}

SeqsUpTo(S, n) == UNION {[1..k -> S] : k \in 0..n}

UrlInputs ==
    [parses : BOOLEAN, has_netloc : {TRUE},
     netloc : SeqsUpTo(HostParts, MaxHostLen), path : SeqsUpTo(PathParts, MaxPathLen)]
    \cup [parses : {TRUE}, has_netloc : {FALSE},
          netloc : {<<>>}, path : SeqsUpTo(PathParts, MaxPathLen)]

\* str.lower() on a piece
LowerPart(part) == IF part = "LinkedIn" THEN "linkedin" ELSE part

\* parsed.hostname.lower() if parsed.hostname else ""
Hostname(url) ==
    IF url.has_netloc /\ url.netloc # <<>>
    THEN [i \in DOMAIN url.netloc |-> LowerPart(url.netloc[i])]
    ELSE <<>>

\* part in text
In(part, text) == \E i \in DOMAIN text : text[i] = part

\* the chain with 'indeed' tested before 'linkedin'
detect_platform_indeed_first(url) ==
    IF ~url.parses THEN "other"
    ELSE LET hostname == Hostname(url)
         IN IF In("indeed", hostname) THEN "indeed"
            ELSE IF In("linkedin", hostname) THEN "linkedin"
            ELSE IF In("glassdoor", hostname) THEN "glassdoor"
            ELSE IF In("careers.", hostname) \/ In("/careers", url.path)
                    \/ In("/jobs", url.path) THEN "company"
            ELSE "other"

\* main.detect_platform: the value of the Platform member it returns
main_detect_platform(url) ==
    IF ~url.parses THEN "other"
    ELSE LET hostname == Hostname(url)
         IN IF In("linkedin", hostname) THEN "linkedin"
            ELSE IF In("indeed", hostname) THEN "indeed"
            ELSE IF In("glassdoor", hostname) THEN "glassdoor"
            ELSE IF In("careers.", hostname) \/ In("/careers", url.path)
                    \/ In("/jobs", url.path) THEN "company"
            ELSE "other"

\* AnalysisService.detect_platform
service_detect_platform(url) ==
    IF ~url.parses THEN "other"
    ELSE LET hostname == Hostname(url)
         IN IF In("linkedin", hostname) THEN "linkedin"
            ELSE IF In("indeed", hostname) THEN "indeed"
            ELSE IF In("glassdoor", hostname) THEN "glassdoor"
            ELSE IF In("careers.", hostname) \/ In("/careers", url.path)
                    \/ In("/jobs", url.path) THEN "company"
            ELSE "other"

\* VercelAnalysisService.detect_platform
vercel_detect_platform(url) ==
    IF ~url.parses THEN "other"
    ELSE LET hostname == Hostname(url)
         IN IF In("linkedin", hostname) THEN "linkedin"
            ELSE IF In("indeed", hostname) THEN "indeed"
            ELSE IF In("glassdoor", hostname) THEN "glassdoor"
            ELSE IF In("careers.", hostname) \/ In("/careers", url.path)
                    \/ In("/jobs", url.path) THEN "company"
            ELSE "other"

\* one copy of detect_platform is applied to a url, once in a run
DetectMain ==
    \E url \in UrlInputs :
        /\ ret[1].op = "init"
        /\ ret' = [ret EXCEPT ![1] =
                      Returned("main.detect_platform", url, main_detect_platform(url), {}, FALSE)]
        /\ UNCHANGED <<db, edge, mock_storage, now, ops, faults, pc, call>>

DetectService ==
    \E url \in UrlInputs :
        /\ ret[1].op = "init"
        /\ ret' = [ret EXCEPT ![1] =
                      Returned("AnalysisService.detect_platform", url,
                               service_detect_platform(url), {}, FALSE)]
        /\ UNCHANGED <<db, edge, mock_storage, now, ops, faults, pc, call>>

DetectVercel ==
    \E url \in UrlInputs :
        /\ ret[1].op = "init"
        /\ ret' = [ret EXCEPT ![1] =
                      Returned("VercelAnalysisService.detect_platform", url,
                               vercel_detect_platform(url), {}, FALSE)]
        /\ UNCHANGED <<db, edge, mock_storage, now, ops, faults, pc, call>>

PlatformNext == DetectMain \/ DetectService \/ DetectVercel

SpecPlatform == Init /\ [][PlatformNext]_vars

DetectOps ==
    {"main.detect_platform", "AnalysisService.detect_platform",
     "VercelAnalysisService.detect_platform"}

\* the tests of the precedence list, in order, on the hostname and path of
\* a url that parses
PlatformTests(url) ==
    <<In("linkedin", Hostname(url)), In("indeed", Hostname(url)),
      In("glassdoor", Hostname(url)),
      In("careers.", Hostname(url)) \/ In("/careers", url.path) \/ In("/jobs", url.path),
      TRUE>>

PlatformNames == <<"linkedin", "indeed", "glassdoor", "company", "other">>

\* C24: each copy of detect_platform returns, for every url, the platform
\* of the first test of the precedence list that holds (other when none
\* does or the url does not parse), and the three copies return the same.
C24_PlatformPrecedence ==
    ret[1].op \in DetectOps =>
        LET url == ret[1].arg
            first == MinOf({k \in 1..5 : PlatformTests(url)[k]})
        IN /\ ret[1].result \in {PlatformNames[k] : k \in 1..5}
           /\ url.parses => ret[1].result = PlatformNames[first]
           /\ main_detect_platform(url) = service_detect_platform(url)
           /\ service_detect_platform(url) = vercel_detect_platform(url)

\* a url whose hostname has 'linkedin' after 'indeed' and whose path has /jobs
C24_Witness ==
    /\ ret[1].op = "VercelAnalysisService.detect_platform"
    /\ ret[1].arg.netloc = <<"indeed", "LinkedIn">>
    /\ ret[1].arg.path = <<"/jobs">>
    /\ ret[1].result = "linkedin"


\* GET /api/history served with Edge Config (the Vercel handler, and the
\* local bridge with no filter): get_analysis_history(page_size * page) of
\* the service, the slice of the page, the filters on the slice
do_GET_history_edge(page, page_size, f) ==
    /\ pc[1] = "idle"
    /\ ret[1].op # "GET /api/history"
    /\ LET all_data == get_all_data(edge, TRUE)
           js == IF "job_searches" \in DOMAIN all_data
                 THEN all_data["job_searches"] ELSE NoDocument
       IN \E analyses \in edge_get_analysis_history(all_data, page_size * page) :
             ret' = [ret EXCEPT ![1] =
                        Returned("GET /api/history", f,
                                 HistoryResponse(analyses, js, page, page_size, f),
                                 {}, FALSE)]
    /\ UNCHANGED <<db, edge, mock_storage, now, ops, faults, pc, call>>

ApiHistoryEdge ==
    \E page \in 1..MaxPage, page_size \in 1..MaxPageSize, f \in ApiFilterInputs :
        do_GET_history_edge(page, page_size, f)

HistoryApiNext == ReliableSave \/ ReliableWrite \/ ApiHistoryEdge

SpecHistoryApi == InitEdge /\ [][HistoryApiNext]_vars

\* the stored analyses the filters of a request select
ApiMatching(f) ==
    LET js == IF "job_searches" \in DOMAIN edge THEN JobSearches ELSE NoDocument
    IN {i \in DOMAIN js :
          /\ f.platform # "" => js[i].platform = f.platform
          /\ f.company # "" => js[i].company = f.company
          /\ f.min # Null => js[i].ghost_probability >= f.min
          /\ f.max # Null => js[i].ghost_probability <= f.max}

\* C25: the total_count of a history response is the number of stored
\* analyses that match the filters of the request, whatever the page and
\* the page size.
C25_TotalCountIsMatchingCount ==
    ret[1].op = "GET /api/history" =>
        ret[1].result.total_count = Cardinality(ApiMatching(ret[1].arg))


\* =====================================================================
\* The requests of a storage operation
\* =====================================================================

\* the call of handler 1 between its requests: the operation, the id
\* delete_analysis is asked to delete, the analysis save_job_analysis is
\* asked to save, the document about to be written, the value to return
\* (the id; 1 and 0 for True and False), the sections the PUTs have written
\* and the position of the PUT loop in SectionOrder
Calling(op, arg, input) ==
    [op |-> op, arg |-> arg, input |-> input, data |-> NoDocument, stale |-> FALSE,
     result |-> None, written |-> {}, section |-> 0]

\* len(all_data.get('job_searches', {}))
JobCount(all_data) ==
    IF "job_searches" \in DOMAIN all_data
    THEN Cardinality(DOMAIN all_data["job_searches"]) ELSE 0

RemoteOperations ==
    {[op |-> "get_all_data", arg |-> None, input |-> NoDocument],
     [op |-> "health_check", arg |-> None, input |-> NoDocument]}
    \cup {[op |-> "delete_analysis", arg |-> id, input |-> NoDocument] : id \in 0..MaxNow}
    \cup {[op |-> "save_job_analysis", arg |-> None,
           input |-> [url |-> job.url, company |-> job.company, prob |-> job.prob,
                      nf |-> kids.nf, meta |-> kids.meta]] :
            job \in AnalysisInputs, kids \in EdgeChildInputs}

\* a storage operation is called: each of the four starts with the GET of
\* get_all_data
StartOperation(o) ==
    /\ pc[1] = "idle"
    /\ ops < MaxOps
    /\ call' = [call EXCEPT ![1] = Calling(o.op, o.arg, o.input)]
    /\ pc' = [pc EXCEPT ![1] = "send GET"]
    /\ ops' = ops + 1
    /\ UNCHANGED <<db, edge, mock_storage, now, faults, ret>>

\* _make_request: requests.get / requests.patch / requests.put is called
\* with url, headers and data only, and blocks until a response arrives or
\* the transport raises
make_request ==
    /\ pc[1] \in {"send GET", "send PATCH", "send PUT"}
    /\ pc' = [pc EXCEPT ![1] =
                 CASE pc[1] = "send GET" -> "await GET"
                   [] pc[1] = "send PATCH" -> "await PATCH"
                   [] OTHER -> "await PUT"]
    /\ UNCHANGED <<db, edge, mock_storage, now, ops, faults, call, ret>>

\* the operation returns; of a snapshot or a health report the number of
\* job searches is kept as the result
ReturnOf(c, result, written) ==
    /\ ret' = [ret EXCEPT ![1] = Returned(c.op, c.arg, result, written, FALSE)]
    /\ pc' = [pc EXCEPT ![1] = "idle"]
    /\ call' = [call EXCEPT ![1] = NoCallInFlight]

\* the store answers the GET (ok), or the request fails; t is the clock
\* reading that save_job_analysis turns into the id
answer_GET(ok, t) ==
    /\ pc[1] = "await GET"
    /\ Failing(~ok)
    /\ LET c == call[1]
           all_data == get_all_data(edge, ok)
       IN CASE c.op = "get_all_data" ->
                  ReturnOf(c, JobCount(all_data), {}) /\ now' = now
            [] c.op = "health_check" ->
                  ReturnOf(c, JobCount(all_data), {}) /\ now' = now
            [] c.op = "save_job_analysis" ->
                  /\ now' = t
                  /\ IF SaveNeeds(c.input.meta) \subseteq DOMAIN all_data
                     THEN /\ call' = [call EXCEPT ![1] =
                                 [c EXCEPT !.data = SaveModify(all_data, c.input.url,
                                                       c.input.company, c.input.prob,
                                                       c.input.nf, c.input.meta, t),
                                           !.result = t]]
                          /\ pc' = [pc EXCEPT ![1] = "send PATCH"]
                          /\ ret' = ret
                     ELSE ReturnOf(c, Raised, {})
            [] OTHER ->
                  /\ now' = now
                  /\ IF /\ "job_searches" \in DOMAIN all_data
                        /\ c.arg \in DOMAIN all_data["job_searches"]
                     THEN IF DeleteNeeds \subseteq DOMAIN all_data
                          THEN /\ call' = [call EXCEPT ![1] =
                                      [c EXCEPT !.data = DeleteModify(all_data, c.arg),
                                                !.result = 1]]
                               /\ pc' = [pc EXCEPT ![1] = "send PATCH"]
                               /\ ret' = ret
                          ELSE ReturnOf(c, Raised, {})
                     ELSE ReturnOf(c, 0, {})
    /\ UNCHANGED <<db, edge, mock_storage, ops>>

\* the store answers the batch PATCH of _save_all_data, or the request
\* fails and the loop of PUTs starts
answer_PATCH(ok) ==
    /\ pc[1] = "await PATCH"
    /\ Failing(~ok)
    /\ IF ok
       THEN /\ edge' = PutSections(edge, Updates(call[1].data), Sections)
            /\ ReturnOf(call[1], call[1].result, Sections)
       ELSE /\ edge' = edge
            /\ call' = [call EXCEPT ![1].section = 1]
            /\ pc' = [pc EXCEPT ![1] = "send PUT"]
            /\ ret' = ret
    /\ UNCHANGED <<db, mock_storage, now, ops>>

\* the store answers the PUT of one section, or the request fails; the loop
\* goes on with the next section either way
answer_PUT(ok) ==
    /\ pc[1] = "await PUT"
    /\ Failing(~ok)
    /\ LET c == call[1]
           key == SectionOrder[c.section]
           written == IF ok THEN c.written \cup {key} ELSE c.written
       IN /\ edge' = IF ok THEN PutSections(edge, Updates(c.data), {key}) ELSE edge
          /\ IF c.section < Len(SectionOrder)
             THEN /\ call' = [call EXCEPT ![1] =
                                 [c EXCEPT !.section = @ + 1, !.written = written]]
                  /\ pc' = [pc EXCEPT ![1] = "send PUT"]
                  /\ ret' = ret
             ELSE ReturnOf(c, c.result, written)
    /\ UNCHANGED <<db, mock_storage, now, ops>>

RemoteStart == \E o \in RemoteOperations : StartOperation(o)

RemoteAnswerGet == \E ok \in BOOLEAN, t \in Times : answer_GET(ok, t)

RemoteAnswerPatch == \E ok \in BOOLEAN : answer_PATCH(ok)

RemoteAnswerPut == \E ok \in BOOLEAN : answer_PUT(ok)

RemoteNext ==
    RemoteStart \/ make_request \/ RemoteAnswerGet \/ RemoteAnswerPatch \/ RemoteAnswerPut

\* The handler runs: a request that is due is made (a step that moves pc).
\* Nothing obliges the store to answer.
SpecRemote == InitEdge /\ [][RemoteNext]_vars /\ WF_pc(make_request)

\* C26: a storage operation that was called returns.
C26_OperationsReturn == (pc[1] # "idle") ~> (pc[1] = "idle")


\* =====================================================================
\* Two connections on the relational store
\* =====================================================================

\* the rows a committed transaction added, as <<table, key>>
RowsAdded(before, after) ==
    {<<"job_searches", i>> : i \in DOMAIN after.job_searches \ DOMAIN before.job_searches}
    \cup {<<"key_factors", f>> : f \in after.key_factors \ before.key_factors}
    \cup {<<"parsing_metadata", i>> : i \in after.parsing_metadata \ before.parsing_metadata}

\* a store whose writers do not exclude each other
WriteLockIgnored(w) == TRUE

\* SQLite lets one connection write at a time: the first INSERT of a
\* transaction waits (busy handler of sqlite3.connect) while another
\* connection is inside its transaction
WriteLockFree(w) == \A v \in Workers \ {w} : pc[v] = "idle"

\* create_job_search on the connection of handler w, up to the end of its
\* first statement: INSERT INTO job_searches.  On IntegrityError the except
\* branch rolls back, SELECTs the id of the url and returns it.
tx_insert_job_search(w, url, company, prob, nf, meta, t) ==
    /\ pc[w] = "idle"
    /\ ret[w].op = "init"
    /\ ops < MaxOps
    /\ WriteLockFree(w)
    /\ IF UniqueConstraintFailed(db.job_searches, url)
       THEN /\ ret' = [ret EXCEPT ![w] =
                          Returned("create_job_search", url,
                                   SelectIdByUrl(db.job_searches, url), {}, FALSE)]
            /\ UNCHANGED <<pc, call>>
       ELSE /\ call' = [call EXCEPT ![w] =
                          [op |-> "create_job_search", arg |-> url,
                           data |-> InsertJobSearch(db, url, company, prob, t),
                           stale |-> FALSE, nf |-> nf, meta |-> meta]]
            /\ pc' = [pc EXCEPT ![w] = "key_factors"]
            /\ ret' = ret
    /\ now' = t
    /\ ops' = ops + 1
    /\ UNCHANGED <<db, edge, mock_storage, faults>>

\* the INSERTs INTO key_factors, under cursor.lastrowid
tx_insert_key_factors(w) ==
    /\ pc[w] = "key_factors"
    /\ LET c == call[w]
           id == c.data.seq
       IN call' = [call EXCEPT ![w] =
                      [c EXCEPT !.data.key_factors = @ \cup {<<id, k>> : k \in 1..c.nf}]]
    /\ pc' = [pc EXCEPT ![w] = "parsing_metadata"]
    /\ UNCHANGED <<db, edge, mock_storage, now, ops, faults, ret>>

\* the INSERT INTO parsing_metadata, if metadata was given
tx_insert_parsing_metadata(w) ==
    /\ pc[w] = "parsing_metadata"
    /\ LET c == call[w]
           id == c.data.seq
       IN call' = [call EXCEPT ![w] =
                      [c EXCEPT !.data.parsing_metadata =
                                    IF c.meta THEN @ \cup {id} ELSE @]]
    /\ pc' = [pc EXCEPT ![w] = "commit"]
    /\ UNCHANGED <<db, edge, mock_storage, now, ops, faults, ret>>

\* conn.commit(); return search_id
tx_commit(w) ==
    /\ pc[w] = "commit"
    /\ db' = call[w].data
    /\ ret' = [ret EXCEPT ![w] =
                  Returned("create_job_search", call[w].arg, call[w].data.seq,
                           RowsAdded(db, call[w].data), FALSE)]
    /\ pc' = [pc EXCEPT ![w] = "idle"]
    /\ call' = [call EXCEPT ![w] = NoCallInFlight]
    /\ UNCHANGED <<edge, mock_storage, now, ops, faults>>

TxInsert ==
    \E w \in Workers, job \in AnalysisInputs, kids \in ChildInputs, t \in Times :
        tx_insert_job_search(w, job.url, job.company, job.prob, kids.nf, kids.meta, t)

TxFactors == \E w \in Workers : tx_insert_key_factors(w)

TxMetadata == \E w \in Workers : tx_insert_parsing_metadata(w)

TxCommit == \E w \in Workers : tx_commit(w)

ConcRelNext == TxInsert \/ TxFactors \/ TxMetadata \/ TxCommit

SpecConcRel == Init /\ [][ConcRelNext]_vars

\* both handlers have returned from create_job_search with the same url
SameUrlCreated ==
    /\ ret[1].op = "create_job_search"
    /\ ret[2].op = "create_job_search"
    /\ ret[1].arg = ret[2].arg

\* the rows of the store that belong to url: its job rows and their children
RowsOfUrl(url) ==
    LET ids == {i \in DOMAIN db.job_searches : db.job_searches[i].url = url}
    IN {<<"job_searches", i>> : i \in ids}
       \cup {<<"key_factors", f>> : f \in {g \in db.key_factors : g[1] \in ids}}
       \cup {<<"parsing_metadata", i>> : i \in db.parsing_metadata \cap ids}

C28_NewIdIsFresh ==
    [][(/\ pc[1] = "idle"
        /\ pc'[1] = "save_all_data"
        /\ call'[1].op = "save_job_analysis"
        /\ "job_searches" \in DOMAIN edge) =>
          ret'[1].result \notin DOMAIN edge["job_searches"]]_vars


\* C29: when a save or a delete returns, every job search that was persisted
\* before its write is still persisted, unless it is the one the delete was
\* asked for or the window is full after the save.
C29_OnlyWindowAndDeleteRemove ==
    [][(/\ pc[1] = "save_all_data"
        /\ pc'[1] = "idle"
        /\ "job_searches" \in DOMAIN edge) =>
          /\ "job_searches" \in DOMAIN edge'
          /\ \A i \in DOMAIN edge["job_searches"] :
                \/ i \in DOMAIN edge'["job_searches"]
                \/ call[1].op = "delete_analysis" /\ i = call[1].arg
                \/ /\ call[1].op = "save_job_analysis"
                   /\ Cardinality(DOMAIN edge'["job_searches"]) = RECENT_LIMIT]_vars


\* C30: in the persisted document, stats.total_analyses is the number of
\* entries of job_searches.
C30_TotalAnalysesCountsPersisted ==
    ({"stats", "job_searches"} \subseteq DOMAIN edge) =>
        edge["stats"].total_analyses = Cardinality(DOMAIN edge["job_searches"])

====
